---- MODULE Spec2Model ----
(***************************************************************************)
(* The POST handler of src/app/api/migrations/validate/route.ts as a state *)
(* machine.  One behaviour is the handling of one request: the handler     *)
(* runs from one await to the next, and every collaborator it awaits       *)
(* (organisation lookup, record pre-check, Validation Engine, requireAuth, *)
(* usageTracker.trackEvent) settles by returning a value or by throwing.   *)
(* A second invocation of the handler, suspended at one of its awaits, is  *)
(* kept in suspended; the event loop resumes it in place of the running.   *)
(* The deploy workflows of .github/workflows run apart from the handler:   *)
(* deploy holds the job's position and the shell variables of its steps.   *)
(* Strings are TLA+ strings, so includes/replace work on characters.       *)
(***************************************************************************)
EXTENDS Integers, Sequences, FiniteSets, TLC

VARIABLES
    request,                 \* the NextRequest: whether request.json() parses, and the body
    pc,                      \* the await the handler is suspended at, or "done"
    orgLookup,               \* the two findUnique promises of Promise.all
    template,                \* const template (line 61)
    recordValidation,        \* const recordValidation (line 70)
    engineValidationResult,  \* const engineValidationResult (line 108)
    validationResult,        \* const validationResult (lines 87 and 181)
    trace,                   \* every collaborator call, return and throw, in order
    consoleErrors,           \* what console.error was called with
    responses,               \* the responses the handler has returned
    suspended,               \* a second invocation of POST, waiting at an await, with its own locals
    deploy                   \* a run of a deploy workflow job: its step and shell variables

vars == <<request, pc, orgLookup, template, recordValidation,
          engineValidationResult, validationResult, trace, consoleErrors, responses,
          suspended, deploy>>

-----------------------------------------------------------------------------
(* Bounds of the model *)

MaxErrors == 2          \* longest engineValidationResult.errors
MaxWarnings == 2        \* longest engineValidationResult.warnings
MaxInfo == 1            \* longest engineValidationResult.info
MaxInvalid == 2         \* how many of the selected records the pre-check may reject

(* Program constants *)

LargeBatchThreshold == 200     \* selectedRecords.length > 200

-----------------------------------------------------------------------------
(* JavaScript values *)

Unset == [unset |-> TRUE]              \* a local not assigned yet
Null == [null |-> TRUE]                \* null / undefined returned by a lookup
Pending == [pending |-> TRUE]          \* a promise that has not settled
EmptyObject == [k \in {} |-> k]        \* {}

\* An object property that is only present when the value is truthy:  v || undefined
Opt(name, obj, key) ==
    IF key \in DOMAIN obj /\ obj[key] # "" THEN (name :> obj[key]) ELSE EmptyObject

\* String.prototype.includes
Includes(s, pat) ==
    \E i \in 1..(Len(s) - Len(pat) + 1) : SubSeq(s, i, i + Len(pat) - 1) = pat

\* String.prototype.replace with a string pattern: the first occurrence only
Replace(s, pat, by) ==
    IF Includes(s, pat)
    THEN LET i == CHOOSE j \in 1..(Len(s) - Len(pat) + 1) :
                    /\ SubSeq(s, j, j + Len(pat) - 1) = pat
                    /\ \A k \in 1..(j - 1) : SubSeq(s, k, k + Len(pat) - 1) # pat
         IN SubSeq(s, 1, i - 1) \o by \o SubSeq(s, i + Len(pat), Len(s))
    ELSE s

\* Array.prototype.filter(...).length on a severity
CountSeverity(issues, severity) ==
    Cardinality({i \in 1..Len(issues) : issues[i].severity = severity})

-----------------------------------------------------------------------------
(* What can be thrown at the handler.  isError is `instanceof Error`. *)

ThrownValues ==
    { [isError |-> TRUE,  message |-> "INVALID_SESSION_ID: Session invalid"],
      [isError |-> TRUE,  message |-> "invalid_grant: authentication failure"],
      [isError |-> TRUE,  message |-> "Access token expired"],
      [isError |-> TRUE,  message |-> "Authentication token has expired"],
      [isError |-> TRUE,  message |-> "Org not connected"],
      [isError |-> TRUE,  message |-> "Connection refused"],
      [isError |-> FALSE, message |-> "INVALID_SESSION_ID"] }

-----------------------------------------------------------------------------
(* The requests *)

RecordId(i) == "rec-" \o ToString(i)
Records(n) == [i \in 1..n |-> RecordId(i)]
RecordCounts == {1, 2, LargeBatchThreshold, LargeBatchThreshold + 1}

RecordNames == ("rec-1" :> "Rule A") @@ ("rec-2" :> "Rule B")

\* a property of the body: absent, or one of the values
Property(name, values) == {EmptyObject} \cup {name :> v : v \in values}

RequestBodies ==
    { s @@ t @@ i @@ r @@ n :
        s \in Property("sourceOrgId", {"", "org-source"}),
        t \in Property("targetOrgId", {"", "org-target"}),
        i \in Property("templateId", {"", "pay-codes", "empty-template",
                                      "untyped-template", "unknown-template"}),
        r \in Property("selectedRecords", {<<>>} \cup {Records(c) : c \in RecordCounts}),
        n \in Property("selectedRecordNames", {RecordNames}) }

Requests ==
    {[parsed |-> FALSE]} \cup {[parsed |-> TRUE, body |-> b] : b \in RequestBodies}

-----------------------------------------------------------------------------
\* no second request is being handled
NoInvocation == [pc |-> "absent"]

\* no deploy job is running
NotDeploying == [step |-> "none"]

Init ==
    /\ request \in Requests
    /\ pc = "start"
    /\ orgLookup = [source |-> Unset, target |-> Unset]
    /\ template = Unset
    /\ recordValidation = Unset
    /\ engineValidationResult = Unset
    /\ validationResult = Unset
    /\ trace = <<>>
    /\ consoleErrors = <<>>
    /\ responses = <<>>
    /\ suspended = NoInvocation
    /\ deploy = NotDeploying

-----------------------------------------------------------------------------
(* The catch block, lines 225-253 *)

\* the session-id pattern left out
TokenErrorPatterns_NoSessionId ==
    {"invalid_grant", "expired", "Authentication token has expired", "not connected"}

TokenErrorPatterns ==
    {"invalid_grant", "expired", "INVALID_SESSION_ID",
     "Authentication token has expired", "not connected"}

\* the instanceof Error test left out
IsTokenError_AnyThrownValue(error) ==
    \E p \in TokenErrorPatterns : Includes(error.message, p)

\* lines 229-235
IsTokenError(error) ==
    error.isError /\ \E p \in TokenErrorPatterns : Includes(error.message, p)

\* lines 236-243
TokenExpiredResponse ==
    [status |-> 401,
     body |-> [error |-> "Authentication token has expired. Please reconnect the organisation.",
               code |-> "TOKEN_EXPIRED",
               reconnectUrl |-> "/orgs"]]

\* lines 246-252
InternalErrorResponse(error) ==
    [status |-> 500,
     body |-> [error |-> "Validation failed",
               details |-> IF error.isError THEN error.message ELSE "Unknown error"]]

\* lines 225-253
CatchResponse(error) ==
    IF IsTokenError(error) THEN TokenExpiredResponse ELSE InternalErrorResponse(error)

\* the handler returns a response
Return(response) ==
    /\ responses' = Append(responses, response)
    /\ pc' = "done"

\* control reaches catch (error)
Catch(error) ==
    /\ consoleErrors' = Append(consoleErrors, [label |-> "Validation error:", error |-> error])
    /\ Return(CatchResponse(error))

Call(fn, args) == [ev |-> "call", fn |-> fn, args |-> args]
Returned(fn, value) == [ev |-> "return", fn |-> fn, value |-> value]
Threw(fn, error) == [ev |-> "throw", fn |-> fn, error |-> error]

-----------------------------------------------------------------------------
(* Lines 36-51: parse the body, check the required parameters, issue the lookups *)

\* what request.json() throws on a body that is not JSON
JsonSyntaxError == [isError |-> TRUE, message |-> "Unexpected end of JSON input"]

\* !x for a string property of the body
Falsy(body, key) == key \notin DOMAIN body \/ body[key] = ""

\* !selectedRecords in place of !selectedRecords?.length
MissingRequired_EmptyListAccepted(body) ==
    \/ Falsy(body, "sourceOrgId")
    \/ Falsy(body, "targetOrgId")
    \/ Falsy(body, "templateId")
    \/ "selectedRecords" \notin DOMAIN body

\* line 40
MissingRequired(body) ==
    \/ Falsy(body, "sourceOrgId")
    \/ Falsy(body, "targetOrgId")
    \/ Falsy(body, "templateId")
    \/ "selectedRecords" \notin DOMAIN body
    \/ Len(body.selectedRecords) = 0

\* lines 41-44
MissingParametersResponse ==
    [status |-> 400, body |-> [error |-> "Missing required validation parameters"]]

ReceiveRequest ==
    /\ pc = "start"
    /\ IF ~request.parsed
       THEN /\ Catch(JsonSyntaxError)
            /\ UNCHANGED <<orgLookup, trace>>
       ELSE IF MissingRequired(request.body)
       THEN /\ Return(MissingParametersResponse)
            /\ UNCHANGED <<orgLookup, trace, consoleErrors>>
       ELSE /\ orgLookup' = [source |-> Pending, target |-> Pending]
            /\ trace' = trace \o
                 << Call("organisations.findUnique:source", <<request.body.sourceOrgId>>),
                    Call("organisations.findUnique:target", <<request.body.targetOrgId>>) >>
            /\ pc' = "awaitOrgs"
            /\ UNCHANGED <<responses, consoleErrors>>
    /\ UNCHANGED <<deploy, suspended, request, template, recordValidation, engineValidationResult,
                   validationResult>>

-----------------------------------------------------------------------------
(* Lines 48-74: Promise.all settles, the organisations and the template are
   checked, the record pre-check is called *)

\* the organisation row findUnique returns for an id the table holds
Organisation(id) == [id |-> id, instance_url |-> "https://" \o id \o ".my.salesforce.com"]

\* the templates registered at import (line 5); any other id is not found
TemplateRegistry(templateId) ==
    CASE templateId = "pay-codes" ->
           [id |-> templateId,
            etlSteps |-> << [stepName |-> "payCodeMaster",
                             extractConfig |-> [objectApiName |-> "tc9_pr__Pay_Code__c"]] >>]
      [] templateId = "empty-template" ->
           [id |-> templateId, etlSteps |-> << >>]
      [] templateId = "untyped-template" ->
           [id |-> templateId, etlSteps |-> << [stepName |-> "untyped"] >>]
      [] OTHER -> Null

\* line 73
FallbackObjectApiName == "tc9_et__Interpretation_Rule__c"

\* the || fallback left out
ObjectApiName_NoFallback(t) ==
    IF /\ Len(t.etlSteps) > 0
       /\ "extractConfig" \in DOMAIN t.etlSteps[1]
       /\ "objectApiName" \in DOMAIN t.etlSteps[1].extractConfig
    THEN t.etlSteps[1].extractConfig.objectApiName
    ELSE ""

\* line 73: template.etlSteps[0]?.extractConfig?.objectApiName || fallback
ObjectApiName(t) ==
    IF /\ Len(t.etlSteps) > 0
       /\ "extractConfig" \in DOMAIN t.etlSteps[1]
       /\ "objectApiName" \in DOMAIN t.etlSteps[1].extractConfig
       /\ t.etlSteps[1].extractConfig.objectApiName # ""
    THEN t.etlSteps[1].extractConfig.objectApiName
    ELSE FallbackObjectApiName

\* only the source organisation is checked
OrganisationMissing_SourceOnly(sourceOrg, targetOrg) == sourceOrg = Null

\* line 53
OrganisationMissing(sourceOrg, targetOrg) == sourceOrg = Null \/ targetOrg = Null

\* lines 54-57
OrganisationNotFoundResponse ==
    [status |-> 404, body |-> [error |-> "Source or target organisation not found"]]

\* lines 63-66
TemplateNotFoundResponse ==
    [status |-> 404, body |-> [error |-> "Template not found"]]

\* lines 53-74, run once both lookups have returned; log is the trace so far
ResolveAndPreCheck(sourceOrg, targetOrg, log) ==
    IF OrganisationMissing(sourceOrg, targetOrg)
    THEN /\ Return(OrganisationNotFoundResponse)
         /\ trace' = log
         /\ UNCHANGED template
    ELSE LET body == request.body
             found == TemplateRegistry(body.templateId)
             log2 == log \o << Call("templateRegistry.getTemplate", <<body.templateId>>),
                               Returned("templateRegistry.getTemplate", found) >>
         IN IF found = Null
            THEN /\ Return(TemplateNotFoundResponse)
                 /\ trace' = log2
                 /\ UNCHANGED template
            ELSE /\ template' = found
                 /\ trace' = Append(log2,
                       Call("validateSelectedRecords",
                            <<body.sourceOrgId, body.selectedRecords, ObjectApiName(found)>>))
                 /\ pc' = "awaitRecordValidation"
                 /\ UNCHANGED responses

OrgLookupReturns(which, other) ==
    /\ pc = "awaitOrgs"
    /\ orgLookup[which] = Pending
    /\ \E org \in {Null, Organisation(request.body[which \o "OrgId"])} :
          LET log == Append(trace, Returned("organisations.findUnique:" \o which, org))
          IN /\ orgLookup' = [orgLookup EXCEPT ![which] = org]
             /\ IF orgLookup[other] = Pending
                THEN /\ trace' = log
                     /\ UNCHANGED <<pc, template, responses>>
                ELSE ResolveAndPreCheck(orgLookup'.source, orgLookup'.target, log)
    /\ UNCHANGED <<deploy, suspended, request, recordValidation, engineValidationResult, validationResult,
                   consoleErrors>>

\* Promise.all rejects with the first rejection, whatever the other lookup does
OrgLookupThrows(which) ==
    /\ pc = "awaitOrgs"
    /\ orgLookup[which] = Pending
    /\ \E error \in ThrownValues :
          /\ orgLookup' = [orgLookup EXCEPT ![which] = [thrown |-> error]]
          /\ trace' = Append(trace, Threw("organisations.findUnique:" \o which, error))
          /\ Catch(error)
    /\ UNCHANGED <<deploy, suspended, request, template, recordValidation, engineValidationResult,
                   validationResult>>

\* the late rejection of the other lookup handled as well: the catch block runs again
OrgLookupSettlesUnobserved_HandledAgain(which) ==
    /\ pc = "done"
    /\ orgLookup[which] = Pending
    /\ \E error \in ThrownValues :
          /\ orgLookup' = [orgLookup EXCEPT ![which] = [thrown |-> error]]
          /\ trace' = Append(trace, Threw("organisations.findUnique:" \o which, error))
          /\ Catch(error)
    /\ UNCHANGED <<deploy, suspended, request, template, recordValidation, engineValidationResult,
                   validationResult>>

\* Promise.all has already rejected and the handler has answered from its catch
\* block: the other lookup still settles, and nothing observes it
OrgLookupSettlesUnobserved(which) ==
    /\ pc = "done"
    /\ orgLookup[which] = Pending
    /\ \E outcome \in {[value |-> Null],
                       [value |-> Organisation(request.body[which \o "OrgId"])]}
                      \cup {[thrown |-> e] : e \in ThrownValues} :
          /\ orgLookup' = [orgLookup EXCEPT ![which] =
                              IF "value" \in DOMAIN outcome THEN outcome.value ELSE outcome]
          /\ trace' = Append(trace,
                 [ev |-> "unobserved", fn |-> "organisations.findUnique:" \o which,
                  outcome |-> outcome])
    /\ UNCHANGED <<deploy, suspended, request, pc, template, recordValidation, engineValidationResult,
                   validationResult, consoleErrors, responses>>

-----------------------------------------------------------------------------
(* The record pre-check, validateSelectedRecords (lib/migration/utils/record-validation):
   each selected record that does not exist or is of another type is collected
   into invalidRecords with its message; valid when none is *)

SeqsUpTo(S, n) == UNION {[1..k -> S] : k \in 0..n}

Min(a, b) == IF a < b THEN a ELSE b

RecordError(recordId, kind, objectApiName) ==
    IF kind = "missing"
    THEN "Record " \o recordId \o " not found in source organisation"
    ELSE "Record " \o recordId \o " is not of type " \o objectApiName

RecordValidationOutcomes(selectedRecords, objectApiName) ==
    LET checked == SubSeq(selectedRecords, 1, Min(Len(selectedRecords), MaxInvalid))
        ids == {checked[i] : i \in 1..Len(checked)}
        Outcome(bad, kind) ==
            LET invalid == SelectSeq(checked, LAMBDA r : r \in bad)
            IN [valid |-> bad = {},
                errors |-> [i \in 1..Len(invalid) |->
                               RecordError(invalid[i], kind, objectApiName)],
                invalidRecords |-> invalid]
    IN {Outcome({}, "missing")} \cup
       {Outcome(bad, kind) : bad \in (SUBSET ids) \ {{}}, kind \in {"missing", "wrongType"}}

-----------------------------------------------------------------------------
(* Lines 76-104: the record-selection short circuit *)

\* the short circuit taken only for more than one rejected record
SelectionInvalid_SeveralOnly(rv) == ~rv.valid /\ Len(rv.errors) > 1

\* line 77
SelectionInvalid(rv) == ~rv.valid

\* every issue given the first invalid record
ShortCircuitIssues_FirstRecord(rv) ==
    [i \in 1..Len(rv.errors) |->
        [id |-> "record-validation-error-" \o ToString(i - 1),
         severity |-> "error",
         title |-> "Invalid Record Selection",
         description |-> rv.errors[i],
         suggestion |-> "Ensure the selected record exists and is of the correct type",
         recordId |-> rv.invalidRecords[1]]]

\* lines 78-85
ShortCircuitIssues(rv) ==
    [i \in 1..Len(rv.errors) |->
        [id |-> "record-validation-error-" \o ToString(i - 1),
         severity |-> "error",
         title |-> "Invalid Record Selection",
         description |-> rv.errors[i],
         suggestion |-> "Ensure the selected record exists and is of the correct type"]
        @@ (IF i <= Len(rv.invalidRecords)
            THEN "recordId" :> rv.invalidRecords[i] ELSE EmptyObject)]

\* the names never echoed
NamesOrEmpty_Dropped(body) == EmptyObject

\* selectedRecordNames || {}
NamesOrEmpty(body) ==
    IF "selectedRecordNames" \in DOMAIN body THEN body.selectedRecordNames ELSE EmptyObject

\* lines 87-98
ShortCircuitResult(rv, body) ==
    LET issues == ShortCircuitIssues(rv)
    IN [isValid |-> FALSE,
        hasErrors |-> TRUE,
        hasWarnings |-> FALSE,
        issues |-> issues,
        summary |-> [errors |-> Len(issues), warnings |-> 0, info |-> 0],
        selectedRecordNames |-> NamesOrEmpty(body)]

\* the invalid selection reported as a client error
ShortCircuitResponse_BadRequest(result) ==
    [status |-> 400, body |-> [success |-> FALSE, validation |-> result]]

\* lines 100-103; NextResponse.json without init is a 200
ShortCircuitResponse(result) ==
    [status |-> 200, body |-> [success |-> FALSE, validation |-> result]]

\* lines 76-114, run when the pre-check has returned rv
AfterRecordValidation(rv) ==
    IF SelectionInvalid(rv)
    THEN /\ validationResult' = ShortCircuitResult(rv, request.body)
         /\ Return(ShortCircuitResponse(validationResult'))
         /\ trace' = Append(trace, Returned("validateSelectedRecords", rv))
    ELSE /\ trace' = trace \o
               << Returned("validateSelectedRecords", rv),
                  Call("ValidationEngine.validateTemplate",
                       << template, request.body.sourceOrgId, request.body.targetOrgId,
                          request.body.selectedRecords, orgLookup.source.instance_url >>) >>
         /\ pc' = "awaitEngine"
         /\ UNCHANGED <<validationResult, responses>>

RecordValidationReturns ==
    /\ pc = "awaitRecordValidation"
    /\ \E rv \in RecordValidationOutcomes(request.body.selectedRecords,
                                          ObjectApiName(template)) :
          /\ recordValidation' = rv
          /\ AfterRecordValidation(rv)
    /\ UNCHANGED <<deploy, suspended, request, orgLookup, template, engineValidationResult, consoleErrors>>

RecordValidationThrows ==
    /\ pc = "awaitRecordValidation"
    /\ \E error \in ThrownValues :
          /\ trace' = Append(trace, Threw("validateSelectedRecords", error))
          /\ Catch(error)
    /\ UNCHANGED <<deploy, suspended, request, orgLookup, template, recordValidation,
                   engineValidationResult, validationResult>>

-----------------------------------------------------------------------------
(* Lines 106-192: the engine's result becomes the ValidationResult *)

\* what the engine reports: entries already formatted by ValidationFormatter
ErrorEntries ==
    { [checkName |-> "Invalid Picklist Values",
       message |-> "Pay code has picklist values missing in the target",
       recordId |-> "rec-1",
       recordLink |-> "https://org-source.my.salesforce.com/rec-1",
       suggestedAction |-> "Add the picklist values to the target org",
       parentRecordId |-> "rec-2"],
      [checkName |-> "Missing Dependency",
       message |-> "Referenced pay code not found in target",
       recordId |-> ""],
      [checkName |-> "Invalid Lookup Values Found",
       message |-> "Lookup values point at records missing in the target",
       recordId |-> "rec-2"] }

WarningEntries ==
    { [checkName |-> "Existing Records",
       message |-> "Records already exist in target and will be updated",
       recordId |-> "rec-1"] }

InfoEntries ==
    { [checkName |-> "Record Count", message |-> "Records ready to migrate"] }

EngineResults ==
    { [errors |-> e, warnings |-> w, info |-> i] :
        e \in SeqsUpTo(ErrorEntries, MaxErrors),
        w \in SeqsUpTo(WarningEntries, MaxWarnings),
        i \in SeqsUpTo(InfoEntries, MaxInfo) }

\* lines 128-129
DerivedField(checkName) ==
    IF Includes(checkName, "Invalid") /\ Includes(checkName, "Values")
    THEN "field" :> Replace(Replace(checkName, "Invalid ", ""), " Values", "")
    ELSE EmptyObject

\* the optional properties every category copies (lines 126-131, 142-145, 156-159)
Optional(entry) ==
    Opt("recordId", entry, "recordId") @@ Opt("recordLink", entry, "recordLink") @@
    Opt("suggestion", entry, "suggestedAction") @@
    Opt("parentRecordId", entry, "parentRecordId")

\* lines 120-133
ErrorIssue(error, index) ==
    [id |-> "error-" \o ToString(index), severity |-> "error",
     title |-> error.checkName, description |-> error.message]
    @@ Optional(error) @@ DerivedField(error.checkName)

\* the id prefix copied from the error mapping
WarningIssue_ErrorPrefix(warning, index) ==
    [id |-> "error-" \o ToString(index), severity |-> "warning",
     title |-> warning.checkName, description |-> warning.message]
    @@ Optional(warning)

\* lines 136-147
WarningIssue(warning, index) ==
    [id |-> "warning-" \o ToString(index), severity |-> "warning",
     title |-> warning.checkName, description |-> warning.message]
    @@ Optional(warning)

\* lines 150-161
InfoIssue(info, index) ==
    [id |-> "info-" \o ToString(index), severity |-> "info",
     title |-> info.checkName, description |-> info.message]
    @@ Optional(info)

\* lines 165-171
LargeBatchWarning(selectedRecords) ==
    [id |-> "large-batch-warning", severity |-> "warning",
     title |-> "Large Number of Records Selected",
     description |-> "You have selected " \o ToString(Len(selectedRecords)) \o
         " records. Large migrations may take longer and have higher failure rates.",
     suggestion |-> "Consider breaking this into smaller batches for better reliability."]

\* the threshold compared one too high
IsLargeBatch_OffByOne(selectedRecords) == Len(selectedRecords) > LargeBatchThreshold + 1

\* line 164
IsLargeBatch(selectedRecords) == Len(selectedRecords) > LargeBatchThreshold

\* the large-batch warning pushed with the engine's warnings, before its info
Issues_LargeBatchAmongWarnings(engine, selectedRecords) ==
    [i \in 1..Len(engine.errors) |-> ErrorIssue(engine.errors[i], i - 1)] \o
    [i \in 1..Len(engine.warnings) |-> WarningIssue(engine.warnings[i], i - 1)] \o
    (IF IsLargeBatch(selectedRecords)
     THEN <<LargeBatchWarning(selectedRecords)>> ELSE <<>>) \o
    [i \in 1..Len(engine.info) |-> InfoIssue(engine.info[i], i - 1)]

\* lines 117-172
Issues(engine, selectedRecords) ==
    [i \in 1..Len(engine.errors) |-> ErrorIssue(engine.errors[i], i - 1)] \o
    [i \in 1..Len(engine.warnings) |-> WarningIssue(engine.warnings[i], i - 1)] \o
    [i \in 1..Len(engine.info) |-> InfoIssue(engine.info[i], i - 1)] \o
    (IF IsLargeBatch(selectedRecords)
     THEN <<LargeBatchWarning(selectedRecords)>> ELSE <<>>)

\* the summary taken before the large-batch warning is pushed
Summary_BeforeLargeBatch(issues) ==
    LET counted == SelectSeq(issues, LAMBDA i : i.id # "large-batch-warning")
    IN [errors |-> CountSeverity(counted, "error"),
        warnings |-> CountSeverity(counted, "warning"),
        info |-> CountSeverity(counted, "info")]

\* lines 175-179
Summary(issues) ==
    [errors |-> CountSeverity(issues, "error"),
     warnings |-> CountSeverity(issues, "warning"),
     info |-> CountSeverity(issues, "info")]

\* valid only when nothing at all was reported
FinalResult_ValidWhenNoIssues(issues, summary, body) ==
    [isValid |-> Len(issues) = 0,
     hasErrors |-> summary.errors > 0,
     hasWarnings |-> summary.warnings > 0,
     issues |-> issues,
     summary |-> summary,
     selectedRecordNames |-> NamesOrEmpty(body)]

\* lines 181-188
FinalResult(issues, summary, body) ==
    [isValid |-> summary.errors = 0,
     hasErrors |-> summary.errors > 0,
     hasWarnings |-> summary.warnings > 0,
     issues |-> issues,
     summary |-> summary,
     selectedRecordNames |-> NamesOrEmpty(body)]

\* lines 116-188
BuildResult(engine, body) ==
    LET issues == Issues(engine, body.selectedRecords)
    IN FinalResult(issues, Summary(issues), body)

\* success taken from the verdict
SuccessResponse_FromVerdict(result) ==
    [status |-> 200, body |-> [success |-> result.isValid, validation |-> result]]

\* lines 220-223
SuccessResponse(result) ==
    [status |-> 200, body |-> [success |-> TRUE, validation |-> result]]

\* the response returned straight after the result is built, the tracking block skipped
EngineReturns_Untracked ==
    /\ pc = "awaitEngine"
    /\ \E engine \in EngineResults :
          /\ engineValidationResult' = engine
          /\ validationResult' = BuildResult(engine, request.body)
          /\ trace' = Append(trace, Returned("ValidationEngine.validateTemplate", engine))
          /\ Return(SuccessResponse(validationResult'))
    /\ UNCHANGED <<deploy, suspended, request, orgLookup, template, recordValidation, consoleErrors>>

EngineReturns ==
    /\ pc = "awaitEngine"
    /\ \E engine \in EngineResults :
          /\ engineValidationResult' = engine
          /\ validationResult' = BuildResult(engine, request.body)
          /\ trace' = trace \o << Returned("ValidationEngine.validateTemplate", engine),
                                  Call("requireAuth", << >>) >>
    /\ pc' = "awaitAuth"
    /\ UNCHANGED <<deploy, suspended, request, orgLookup, template, recordValidation, consoleErrors,
                   responses>>

EngineThrows ==
    /\ pc = "awaitEngine"
    /\ \E error \in ThrownValues :
          /\ trace' = Append(trace, Threw("ValidationEngine.validateTemplate", error))
          /\ Catch(error)
    /\ UNCHANGED <<deploy, suspended, request, orgLookup, template, recordValidation,
                   engineValidationResult, validationResult>>

-----------------------------------------------------------------------------
(* Lines 190-223: usage tracking, then the response *)

\* lines 205-211: how many error issues carry each title
ErrorTypes(issues) ==
    LET errs == {i \in 1..Len(issues) : issues[i].severity = "error"}
    IN [t \in {issues[i].title : i \in errs} |->
           Cardinality({i \in errs : issues[i].title = t})]

\* lines 193-214
UsageEvent(session, body, result) ==
    [eventType |-> "migration_validated",
     userId |-> session.user.id,
     metadata |->
        [templateId |-> body.templateId,
         sourceOrgId |-> body.sourceOrgId,
         targetOrgId |-> body.targetOrgId,
         recordCount |-> Len(body.selectedRecords),
         validationResult |->
            [isValid |-> result.isValid,
             errorCount |-> result.summary.errors,
             warningCount |-> result.summary.warnings,
             errorTypes |-> ErrorTypes(result.issues)]]]

\* the tracking error rethrown to the outer catch
TrackingFailed_Rethrown(error) == Catch(error)

\* lines 215-223: the tracking error is logged, the response follows
TrackingFailed(error) ==
    /\ consoleErrors' = Append(consoleErrors,
           [label |-> "Failed to track validation event:", error |-> error])
    /\ Return(SuccessResponse(validationResult))

Sessions == { [user |-> [id |-> "user-1"]] }

\* reading authSession.user of null (line 195)
NullSessionError ==
    [isError |-> TRUE, message |-> "Cannot read properties of null (reading 'user')"]

RequireAuthReturns ==
    /\ pc = "awaitAuth"
    /\ \E session \in Sessions \cup {Null} :
          IF session = Null
          THEN /\ trace' = Append(trace, Returned("requireAuth", session))
               /\ TrackingFailed(NullSessionError)
          ELSE /\ trace' = trace \o
                     << Returned("requireAuth", session),
                        Call("usageTracker.trackEvent",
                             << UsageEvent(session, request.body, validationResult) >>) >>
               /\ pc' = "awaitTrack"
               /\ UNCHANGED <<responses, consoleErrors>>
    /\ UNCHANGED <<deploy, suspended, request, orgLookup, template, recordValidation,
                   engineValidationResult, validationResult>>

\* the request rejected when requireAuth throws
RequireAuthThrows_Unauthorized ==
    /\ pc = "awaitAuth"
    /\ \E error \in ThrownValues :
          /\ trace' = Append(trace, Threw("requireAuth", error))
          /\ Return(TokenExpiredResponse)
          /\ UNCHANGED consoleErrors
    /\ UNCHANGED <<deploy, suspended, request, orgLookup, template, recordValidation,
                   engineValidationResult, validationResult>>

RequireAuthThrows ==
    /\ pc = "awaitAuth"
    /\ \E error \in ThrownValues :
          /\ trace' = Append(trace, Threw("requireAuth", error))
          /\ TrackingFailed(error)
    /\ UNCHANGED <<deploy, suspended, request, orgLookup, template, recordValidation,
                   engineValidationResult, validationResult>>

TrackEventReturns ==
    /\ pc = "awaitTrack"
    /\ trace' = Append(trace, Returned("usageTracker.trackEvent", EmptyObject))
    /\ Return(SuccessResponse(validationResult))
    /\ UNCHANGED <<deploy, suspended, request, orgLookup, template, recordValidation,
                   engineValidationResult, validationResult, consoleErrors>>

TrackEventThrows ==
    /\ pc = "awaitTrack"
    /\ \E error \in ThrownValues :
          /\ trace' = Append(trace, Threw("usageTracker.trackEvent", error))
          /\ TrackingFailed(error)
    /\ UNCHANGED <<deploy, suspended, request, orgLookup, template, recordValidation,
                   engineValidationResult, validationResult>>

-----------------------------------------------------------------------------
Next ==
    \/ ReceiveRequest
    \/ OrgLookupReturns("source", "target")
    \/ OrgLookupReturns("target", "source")
    \/ OrgLookupThrows("source")
    \/ OrgLookupThrows("target")
    \/ OrgLookupSettlesUnobserved("source")
    \/ OrgLookupSettlesUnobserved("target")
    \/ RecordValidationReturns
    \/ RecordValidationThrows
    \/ EngineReturns
    \/ EngineThrows
    \/ RequireAuthReturns
    \/ RequireAuthThrows
    \/ TrackEventReturns
    \/ TrackEventThrows

Spec == Init /\ [][Next]_vars

\* The handler's own continuations run once the awaited promise has settled, and
\* the organisation lookups, the pre-check and the engine settle; nothing obliges
\* requireAuth or usageTracker.trackEvent to settle.
UntrackedStep ==
    \/ ReceiveRequest
    \/ OrgLookupReturns("source", "target")
    \/ OrgLookupReturns("target", "source")
    \/ OrgLookupThrows("source")
    \/ OrgLookupThrows("target")
    \/ OrgLookupSettlesUnobserved("source")
    \/ OrgLookupSettlesUnobserved("target")
    \/ RecordValidationReturns
    \/ RecordValidationThrows
    \/ EngineReturns
    \/ EngineThrows

FairSpec == Spec /\ WF_vars(UntrackedStep)

-----------------------------------------------------------------------------
(* Two requests in flight.  POST is an async function (line 35): each request
   gets an invocation of its own, whose locals (body, sourceOrg, template,
   issues, validationEngine, validationResult) are declared inside the function.
   An invocation runs until its next await; the event loop may then resume the
   other one.  The running invocation is held in the variables above, the
   waiting one in suspended. *)

\* the locals of the running invocation
Running ==
    [request |-> request, pc |-> pc, orgLookup |-> orgLookup, template |-> template,
     recordValidation |-> recordValidation,
     engineValidationResult |-> engineValidationResult,
     validationResult |-> validationResult, trace |-> trace,
     consoleErrors |-> consoleErrors, responses |-> responses]

\* an invocation that has received req and not run yet
Fresh(req) ==
    [request |-> req, pc |-> "start", orgLookup |-> [source |-> Unset, target |-> Unset],
     template |-> Unset, recordValidation |-> Unset, engineValidationResult |-> Unset,
     validationResult |-> Unset, trace |-> <<>>, consoleErrors |-> <<>>,
     responses |-> <<>>]

\* validationResult kept in one module-level variable that both invocations write
Switch_SharedResult ==
    /\ suspended # NoInvocation
    /\ suspended' = Running
    /\ request' = suspended.request
    /\ pc' = suspended.pc
    /\ orgLookup' = suspended.orgLookup
    /\ template' = suspended.template
    /\ recordValidation' = suspended.recordValidation
    /\ engineValidationResult' = suspended.engineValidationResult
    /\ validationResult' = validationResult
    /\ trace' = suspended.trace
    /\ consoleErrors' = suspended.consoleErrors
    /\ responses' = suspended.responses
    /\ UNCHANGED deploy

\* the running invocation waits at its await (or has returned) and the event
\* loop resumes the other one, which finds its own locals as it left them
Switch ==
    /\ suspended # NoInvocation
    /\ suspended' = Running
    /\ request' = suspended.request
    /\ pc' = suspended.pc
    /\ orgLookup' = suspended.orgLookup
    /\ template' = suspended.template
    /\ recordValidation' = suspended.recordValidation
    /\ engineValidationResult' = suspended.engineValidationResult
    /\ validationResult' = suspended.validationResult
    /\ trace' = suspended.trace
    /\ consoleErrors' = suspended.consoleErrors
    /\ responses' = suspended.responses
    /\ UNCHANGED deploy

\* the requests of the two-request scenario: a small named selection, a large
\* unnamed one against another template, and one without its templateId
ConcurrentRequests ==
    { [parsed |-> TRUE,
       body |-> [sourceOrgId |-> "org-source", targetOrgId |-> "org-target",
                 templateId |-> "pay-codes", selectedRecords |-> Records(1),
                 selectedRecordNames |-> RecordNames]],
      [parsed |-> TRUE,
       body |-> [sourceOrgId |-> "org-source", targetOrgId |-> "org-target",
                 templateId |-> "untyped-template",
                 selectedRecords |-> Records(LargeBatchThreshold + 1)]],
      [parsed |-> TRUE,
       body |-> [sourceOrgId |-> "org-source", targetOrgId |-> "org-target",
                 selectedRecords |-> Records(1)]] }

\* the collaborator answers of the two-request scenario
ScenarioThrown ==
    { [isError |-> TRUE, message |-> "INVALID_SESSION_ID: Session invalid"],
      [isError |-> TRUE, message |-> "Connection refused"] }

ScenarioEngineResults ==
    { r \in EngineResults :
        /\ Len(r.errors) <= 1
        /\ Len(r.warnings) <= 1
        /\ Len(r.info) = 0
        /\ \A i \in 1..Len(r.errors) : r.errors[i].checkName = "Invalid Picklist Values" }

InScenario ==
    \A i \in 1..Len(trace) :
        LET entry == trace[i]
        IN /\ entry.ev = "throw" => entry.error \in ScenarioThrown
           /\ entry.ev = "unobserved" /\ "thrown" \in DOMAIN entry.outcome =>
                 entry.outcome.thrown \in ScenarioThrown
           /\ entry.ev = "return" /\ entry.fn = "ValidationEngine.validateTemplate" =>
                 entry.value \in ScenarioEngineResults
           /\ entry.ev = "return" /\ entry.fn = "validateSelectedRecords" =>
                 Len(entry.value.invalidRecords) <= 1

ConcurrentInit ==
    /\ request \in ConcurrentRequests
    /\ pc = "start"
    /\ orgLookup = [source |-> Unset, target |-> Unset]
    /\ template = Unset
    /\ recordValidation = Unset
    /\ engineValidationResult = Unset
    /\ validationResult = Unset
    /\ trace = <<>>
    /\ consoleErrors = <<>>
    /\ responses = <<>>
    /\ suspended \in {NoInvocation} \cup {Fresh(req) : req \in ConcurrentRequests}
    /\ deploy = NotDeploying

ConcurrentNext ==
    \/ ReceiveRequest /\ InScenario'
    \/ OrgLookupReturns("source", "target") /\ InScenario'
    \/ OrgLookupReturns("target", "source") /\ InScenario'
    \/ OrgLookupThrows("source") /\ InScenario'
    \/ OrgLookupThrows("target") /\ InScenario'
    \/ OrgLookupSettlesUnobserved("source") /\ InScenario'
    \/ OrgLookupSettlesUnobserved("target") /\ InScenario'
    \/ RecordValidationReturns /\ InScenario'
    \/ RecordValidationThrows /\ InScenario'
    \/ EngineReturns /\ InScenario'
    \/ EngineThrows /\ InScenario'
    \/ RequireAuthReturns /\ InScenario'
    \/ RequireAuthThrows /\ InScenario'
    \/ TrackEventReturns /\ InScenario'
    \/ TrackEventThrows /\ InScenario'
    \/ Switch

ConcurrentSpec == ConcurrentInit /\ [][ConcurrentNext]_vars

-----------------------------------------------------------------------------
(* The deploy jobs of .github/workflows/deploy-production.yml and
   deploy-staging.yml, from "Check deployment status" to "Run database
   migrations".  The two files differ in the app name only.  A run: step has no
   shell key, so the runner executes the script with bash -e: a command that
   exits non-zero outside an if/while condition or a || list ends the script
   with that exit code.  A step without an if: key runs only while every
   earlier step has succeeded. *)

Workflows == {"production", "staging"}

\* --app
FlyApp(workflow) ==
    IF workflow = "production" THEN "tc9-migration-tool" ELSE "tc9-migration-tool-staging"

StatusMaxAttempts == 10       \* max_attempts=10
MigrateMaxAttempts == 3       \* max_attempts=3

\* what flyctl status prints (2>&1) and its exit code
StatusResults ==
    { [exit |-> 0, output |-> << "app  1a2b started  1 total, 1 passing" >>],
      [exit |-> 0, output |-> << "app  1a2b stopped" >>],
      [exit |-> 0, output |-> << "app  1a2b created" >>],
      [exit |-> 0, output |-> << "app  1a2b replacing started" >>],
      [exit |-> 0, output |-> << "app  1a2b replacing", "app  3c4d running" >>],
      [exit |-> 1, output |-> << "Error: failed to get app: context deadline exceeded" >>],
      [exit |-> 1, output |-> << "Error: machine stopped responding" >>] }

\* echo "$status_output" | grep -E "started|running|stopped" | grep -v "replacing"
MachinesReady(output) ==
    \E i \in 1..Len(output) :
        /\ \/ Includes(output[i], "started")
           \/ Includes(output[i], "running")
           \/ Includes(output[i], "stopped")
        /\ ~Includes(output[i], "replacing")

\* curl -f exits 0, or 22 on an HTTP error, or 7 when it cannot connect
CurlExitCodes == {0, 22, 7}

\* the job as the deploy step hands it over
DeployStarted(workflow) ==
    [workflow |-> workflow,
     step |-> "check-status",
     attempt |-> 1,
     status_output |-> << >>,
     polls |-> << >>,
     health |-> << >>,
     migrations |-> << >>]

\* the script of the running step exits non-zero: the step fails, the steps
\* after it without an if: key are skipped
StepFails(job, exit) == [job EXCEPT !.step = "failed"] @@ [failedStep |-> job.step, exit |-> exit]

\* one pass of the while loop of "Check deployment status"
PollStatus ==
    /\ deploy.step = "check-status"
    /\ deploy.attempt <= StatusMaxAttempts
    /\ \E result \in StatusResults :
          LET polled == [deploy EXCEPT !.status_output = result.output]
          IN IF result.exit # 0
             THEN deploy' = StepFails([polled EXCEPT !.polls = Append(@, "error")], result.exit)
             ELSE IF MachinesReady(result.output)
             THEN \E code \in CurlExitCodes :
                     deploy' = [polled EXCEPT !.polls = Append(@, "ready"),
                                              !.health = Append(@, code),
                                              !.step = "migrations",
                                              !.attempt = 1]
             ELSE deploy' = [polled EXCEPT !.polls = Append(@, "waiting"),
                                           !.attempt = @ + 1]
    /\ UNCHANGED <<request, pc, orgLookup, template, recordValidation,
                   engineValidationResult, validationResult, trace, consoleErrors,
                   responses, suspended>>

\* the loop has run out: if [ $attempt -gt $max_attempts ] ... exit 1
StatusTimeout ==
    /\ deploy.step = "check-status"
    /\ deploy.attempt > StatusMaxAttempts
    /\ deploy' = StepFails(deploy, 1)
    /\ UNCHANGED <<request, pc, orgLookup, template, recordValidation,
                   engineValidationResult, validationResult, trace, consoleErrors,
                   responses, suspended>>

\* the loop left after the last failure without exit 1
MigrateAttempt_NeverFails ==
    /\ deploy.step = "migrations"
    /\ deploy.attempt <= MigrateMaxAttempts
    /\ \E exit \in {0, 1} :
          LET ran == [deploy EXCEPT !.migrations =
                         Append(@, [app |-> FlyApp(deploy.workflow), exit |-> exit])]
          IN IF exit = 0 \/ deploy.attempt + 1 > MigrateMaxAttempts
             THEN deploy' = [ran EXCEPT !.step = "health-check"]
             ELSE deploy' = [ran EXCEPT !.attempt = @ + 1]
    /\ UNCHANGED <<request, pc, orgLookup, template, recordValidation,
                   engineValidationResult, validationResult, trace, consoleErrors,
                   responses, suspended>>

\* one pass of the while loop of "Run database migrations"
MigrateAttempt ==
    /\ deploy.step = "migrations"
    /\ deploy.attempt <= MigrateMaxAttempts
    /\ \E exit \in {0, 1} :
          LET ran == [deploy EXCEPT !.migrations =
                         Append(@, [app |-> FlyApp(deploy.workflow), exit |-> exit])]
          IN IF exit = 0
             THEN deploy' = [ran EXCEPT !.step = "health-check"]
             ELSE IF deploy.attempt + 1 > MigrateMaxAttempts
             THEN deploy' = StepFails([ran EXCEPT !.attempt = @ + 1], 1)
             ELSE deploy' = [ran EXCEPT !.attempt = @ + 1]
    /\ UNCHANGED <<request, pc, orgLookup, template, recordValidation,
                   engineValidationResult, validationResult, trace, consoleErrors,
                   responses, suspended>>

\* a deploy job starts its status check; no request is being handled by it
DeployInit ==
    /\ deploy \in {DeployStarted(workflow) : workflow \in Workflows}
    /\ request = Unset
    /\ pc = "absent"
    /\ orgLookup = [source |-> Unset, target |-> Unset]
    /\ template = Unset
    /\ recordValidation = Unset
    /\ engineValidationResult = Unset
    /\ validationResult = Unset
    /\ trace = <<>>
    /\ consoleErrors = <<>>
    /\ responses = <<>>
    /\ suspended = NoInvocation

DeployNext ==
    \/ PollStatus
    \/ StatusTimeout
    \/ MigrateAttempt

DeploySpec == DeployInit /\ [][DeployNext]_vars

\* every command of the scripts returns, so the job goes on while it has a step to run
DeployFairSpec == DeploySpec /\ WF_vars(DeployNext)

-----------------------------------------------------------------------------
(* Reading the trace and the response *)

Events(ev, fns) == {i \in 1..Len(trace) : trace[i].ev = ev /\ trace[i].fn \in fns}
Invoked(fn) == Events("call", {fn}) # {}
Answered == pc = "done" /\ Len(responses) = 1
Response == responses[1]
HasVerdict == Answered /\ "validation" \in DOMAIN Response.body

OrgLookupFns == {"organisations.findUnique:source", "organisations.findUnique:target"}
LookupFns == OrgLookupFns \cup {"templateRegistry.getTemplate"}
TrackingFns == {"requireAuth", "usageTracker.trackEvent"}
DownstreamFns ==
    OrgLookupFns \cup {"validateSelectedRecords", "ValidationEngine.validateTemplate"}

PreCheckRejected == recordValidation # Unset /\ ~recordValidation.valid

-----------------------------------------------------------------------------
(* C1: when the pre-check returns valid=false the response carries one error
   issue per invalid record (the i-th issue for the i-th invalid record), the
   Validation Engine is not invoked, and validation.isValid is false. *)
C1_InvalidSelectionShortCircuits ==
    PreCheckRejected =>
        /\ ~Invoked("ValidationEngine.validateTemplate")
        /\ Answered
        /\ LET v == Response.body.validation
           IN /\ Len(v.issues) = Len(recordValidation.invalidRecords)
              /\ \A i \in 1..Len(v.issues) :
                    /\ v.issues[i].severity = "error"
                    /\ v.issues[i].recordId = recordValidation.invalidRecords[i]
              /\ v.isValid = FALSE

C1_Witness ==
    /\ PreCheckRejected
    /\ Len(recordValidation.invalidRecords) = 2
    /\ Answered
    /\ Len(Response.body.validation.issues) = 2

(* C2: every ValidationResult returned, on the short-circuit path and on the
   engine path, has isValid = (summary.errors = 0), hasErrors =
   (summary.errors > 0) and hasWarnings = (summary.warnings > 0). *)
C2_DerivedFlags ==
    \A r \in 1..Len(responses) :
        "validation" \in DOMAIN responses[r].body =>
            LET v == responses[r].body.validation
            IN /\ v.isValid = (v.summary.errors = 0)
               /\ v.hasErrors = (v.summary.errors > 0)
               /\ v.hasWarnings = (v.summary.warnings > 0)

C2_Witness ==
    /\ HasVerdict
    /\ engineValidationResult # Unset
    /\ Response.body.validation.summary.errors = 0
    /\ Response.body.validation.summary.warnings > 0
    /\ Response.body.validation.isValid

(* C3: in every success:true response the three summary counts are the numbers
   of issues of that severity, and they add up to issues.length, the
   large-batch warning included. *)
C3_SummaryCountsIssues ==
    \A r \in 1..Len(responses) :
        ("success" \in DOMAIN responses[r].body /\ responses[r].body.success) =>
            LET v == responses[r].body.validation
            IN /\ v.summary.errors = CountSeverity(v.issues, "error")
               /\ v.summary.warnings = CountSeverity(v.issues, "warning")
               /\ v.summary.info = CountSeverity(v.issues, "info")
               /\ v.summary.errors + v.summary.warnings + v.summary.info = Len(v.issues)

C3_Witness ==
    /\ HasVerdict
    /\ Response.body.success
    /\ \E i \in 1..Len(Response.body.validation.issues) :
          Response.body.validation.issues[i].id = "large-batch-warning"
    /\ Response.body.validation.summary = [errors |-> 1, warnings |-> 3, info |-> 1]

\* a required parameter is absent or empty in the parsed body
ParameterMissing ==
    /\ request.parsed
    /\ \/ \E k \in {"sourceOrgId", "targetOrgId", "templateId"} :
             k \notin DOMAIN request.body \/ request.body[k] = ""
       \/ "selectedRecords" \notin DOMAIN request.body
       \/ request.body.selectedRecords = << >>

(* C4: a request with sourceOrgId, targetOrgId or templateId missing, or with
   selectedRecords empty, makes no collaborator call at all and is answered
   with status 400. *)
C4_MissingParameterIs400 ==
    ParameterMissing =>
        /\ trace = << >>
        /\ pc = "done" => (Len(responses) = 1 /\ Response.status = 400)

C4_Witness ==
    /\ ParameterMissing
    /\ "sourceOrgId" \in DOMAIN request.body /\ request.body.sourceOrgId # ""
    /\ "selectedRecords" \in DOMAIN request.body /\ request.body.selectedRecords = << >>
    /\ Answered
    /\ Response.status = 400

\* a lookup returned null to the handler and no collaborator threw
LookupUnresolved ==
    /\ \E i \in Events("return", LookupFns) : trace[i].value = Null
    /\ Events("throw", LookupFns) = {}

(* C5: with all required inputs present, when a lookup of the source
   organisation, the target organisation or the template returns null (and no
   lookup fails), the answer is 404 and neither the record pre-check nor the
   Validation Engine is invoked. *)
C5_UnresolvedIs404 ==
    (pc = "done" /\ request.parsed /\ ~ParameterMissing /\ LookupUnresolved) =>
        /\ Len(responses) = 1
        /\ Response.status = 404
        /\ ~Invoked("validateSelectedRecords")
        /\ ~Invoked("ValidationEngine.validateTemplate")

C5_Witness ==
    /\ Answered
    /\ \E i \in Events("return", {"organisations.findUnique:target"}) : trace[i].value = Null
    /\ \E i \in Events("return", {"organisations.findUnique:source"}) : trace[i].value # Null
    /\ Response.status = 404

\* the thrown Error values whose message carries INVALID_SESSION_ID
SessionErrors(fns) ==
    { trace[i].error : i \in { j \in Events("throw", fns) :
        trace[j].error.isError /\ Includes(trace[j].error.message, "INVALID_SESSION_ID") } }

(* C6: when an organisation lookup, the record pre-check or the engine fails
   on the handler with an Error whose message contains "INVALID_SESSION_ID"
   (a lookup that rejects after Promise.all has already rejected is never
   delivered to the handler), the response is
   401 with code "TOKEN_EXPIRED" and a reconnectUrl, and no string of its body
   contains the downstream message. *)
C6_SessionErrorIs401 ==
    \A error \in SessionErrors(DownstreamFns) :
        /\ Answered
        /\ Response.status = 401
        /\ "code" \in DOMAIN Response.body /\ Response.body.code = "TOKEN_EXPIRED"
        /\ "reconnectUrl" \in DOMAIN Response.body
        /\ \A k \in DOMAIN Response.body : ~Includes(Response.body[k], error.message)

C6_Witness ==
    /\ SessionErrors({"validateSelectedRecords"}) # {}
    /\ Answered
    /\ Response.status = 401

\* every issue of the response is an error titled "Invalid Record Selection"
SelectionIssuesOnly ==
    /\ "validation" \in DOMAIN Response.body
    /\ \A i \in 1..Len(Response.body.validation.issues) :
          /\ Response.body.validation.issues[i].severity = "error"
          /\ Response.body.validation.issues[i].title = "Invalid Record Selection"

(* C7 as stated: no failure of the record pre-check, reported or thrown, gives
   a non-2xx response; each is delivered as a 200 whose issues are errors
   titled "Invalid Record Selection". *)
C7_EveryPreCheckFailureIs200 ==
    (pc = "done" /\ (PreCheckRejected \/ Events("throw", {"validateSelectedRecords"}) # {})) =>
        /\ Len(responses) = 1
        /\ Response.status = 200
        /\ SelectionIssuesOnly

(* C7 amended: a failure the pre-check reports by returning valid=false is
   delivered as a 200 whose issues are errors titled "Invalid Record
   Selection"; an exception thrown by the pre-check is not recovered locally
   and is answered with 401 or 500 by the catch block. *)
C7_ReportedFailureIs200 ==
    /\ PreCheckRejected =>
          /\ Answered
          /\ Response.status = 200
          /\ SelectionIssuesOnly
    /\ (pc = "done" /\ Events("throw", {"validateSelectedRecords"}) # {}) =>
          /\ Len(responses) = 1
          /\ Response.status \in {401, 500}
          /\ "validation" \notin DOMAIN Response.body

C7_Witness ==
    /\ PreCheckRejected
    /\ Answered
    /\ Response.status = 200
    /\ Response.body.validation.issues[1].title = "Invalid Record Selection"
    /\ Response.body.validation.issues[1].description =
          "Record rec-1 is not of type tc9_pr__Pay_Code__c"

\* requireAuth or trackEvent threw, or requireAuth gave no session
TrackingErrors ==
    {trace[i].error : i \in Events("throw", TrackingFns)}

(* C8: when requireAuth or usageTracker.trackEvent throws, whatever the error,
   the response is the 200 {success:true, validation} built from the
   ValidationResult computed before tracking started. *)
C8_TrackingFailureKeepsResponse ==
    (pc = "done" /\ (TrackingErrors # {} \/
                     \E i \in Events("return", {"requireAuth"}) : trace[i].value = Null)) =>
        /\ Len(responses) = 1
        /\ Response = [status |-> 200,
                       body |-> [success |-> TRUE, validation |-> validationResult]]
        /\ validationResult # Unset

C8_Witness ==
    /\ Answered
    /\ \E error \in TrackingErrors :
          error.isError /\ Includes(error.message, "INVALID_SESSION_ID")
    /\ Invoked("usageTracker.trackEvent")
    /\ Response.status = 200
    /\ ~Response.body.validation.isValid

(* C9: once the ValidationResult has been computed the response is eventually
   returned, even if requireAuth or usageTracker.trackEvent never completes. *)
C9_ResponseDoesNotWaitOnTracking ==
    (validationResult # Unset) ~> (responses # << >>)

\* the calls of a collaborator
Calls(fn) == Events("call", {fn})

\* the event handed to trackEvent describes the run and its verdict
EventDescribesRun(event) ==
    LET v == Response.body.validation
    IN /\ event.eventType = "migration_validated"
       /\ event.metadata.templateId = request.body.templateId
       /\ event.metadata.sourceOrgId = request.body.sourceOrgId
       /\ event.metadata.targetOrgId = request.body.targetOrgId
       /\ event.metadata.recordCount = Len(request.body.selectedRecords)
       /\ event.metadata.validationResult.isValid = v.isValid
       /\ event.metadata.validationResult.errorCount = CountSeverity(v.issues, "error")
       /\ event.metadata.validationResult.warningCount = CountSeverity(v.issues, "warning")

(* C10 as stated: every call that reaches a verdict, the record-selection
   short-circuit verdict included, makes exactly one attempt to record a usage
   event. *)
C10_EveryVerdictTracked ==
    HasVerdict => Cardinality(Calls("requireAuth")) = 1

(* C10 amended: every call that reaches a verdict from the engine, valid or
   invalid, makes exactly one attempt to record a usage event (requireAuth is
   called once, and usageTracker.trackEvent once, with an event describing the
   run, when requireAuth returns a session); the record-selection short-circuit
   verdict is returned without any tracking attempt. *)
C10_EngineVerdictTracked ==
    HasVerdict =>
        IF Invoked("ValidationEngine.validateTemplate")
        THEN /\ Cardinality(Calls("requireAuth")) = 1
             /\ Cardinality(Calls("usageTracker.trackEvent")) =
                   IF \E i \in Events("return", {"requireAuth"}) : trace[i].value # Null
                   THEN 1 ELSE 0
             /\ \A i \in Calls("usageTracker.trackEvent") :
                   EventDescribesRun(trace[i].args[1])
        ELSE /\ PreCheckRejected
             /\ Calls("requireAuth") = {}
             /\ Calls("usageTracker.trackEvent") = {}

C10_Witness ==
    /\ HasVerdict
    /\ Invoked("ValidationEngine.validateTemplate")
    /\ ~Response.body.validation.isValid
    /\ Response.body.validation.hasWarnings
    /\ Cardinality(Calls("usageTracker.trackEvent")) = 1
\* the engine reported nothing at all
EngineFoundNothing ==
    engineValidationResult = [errors |-> << >>, warnings |-> << >>, info |-> << >>]

(* C11: with more than 200 selected records and a passing record selection, a
   completed validation carries an issue with id "large-batch-warning" and
   severity "warning", and isValid is true exactly when the engine returned no
   error; with 201 records and an engine that reports nothing the response has
   exactly that one warning, summary {errors:0, warnings:1, info:0} and
   isValid=true. *)
C11_LargeBatchWarning ==
    (/\ HasVerdict
     /\ recordValidation # Unset /\ recordValidation.valid
     /\ Len(request.body.selectedRecords) > 200) =>
        LET v == Response.body.validation
        IN /\ \E i \in 1..Len(v.issues) :
                 v.issues[i].id = "large-batch-warning" /\ v.issues[i].severity = "warning"
           /\ v.isValid = (engineValidationResult.errors = << >>)
           /\ (Len(request.body.selectedRecords) = 201 /\ EngineFoundNothing) =>
                 /\ Len(v.issues) = 1
                 /\ v.summary = [errors |-> 0, warnings |-> 1, info |-> 0]
                 /\ v.isValid

C11_Witness ==
    /\ HasVerdict
    /\ Len(request.body.selectedRecords) = 201
    /\ EngineFoundNothing
    /\ Response.body.validation.summary = [errors |-> 0, warnings |-> 1, info |-> 0]
    /\ Response.body.validation.issues[1].id = "large-batch-warning"
(* C12: every completed validation is answered with status 200; the body
   carries success:true on the engine path, also when isValid is false, and
   success:false exactly on the record-selection short-circuit path, so
   success=false implies isValid=false. *)
C12_SuccessFlag ==
    HasVerdict =>
        /\ Response.status = 200
        /\ Response.body.success = Invoked("ValidationEngine.validateTemplate")
        /\ Response.body.success = ~PreCheckRejected
        /\ ~Response.body.success => ~Response.body.validation.isValid

C12_Witness ==
    /\ HasVerdict
    /\ Response.body.success
    /\ ~Response.body.validation.isValid
    /\ Response.status = 200
\* a structured validation report
IsValidationReport(r) ==
    /\ r.status = 200
    /\ DOMAIN r.body = {"success", "validation"}
    /\ DOMAIN r.body.validation =
          {"isValid", "hasErrors", "hasWarnings", "issues", "summary", "selectedRecordNames"}

\* a structured error object
IsErrorObject(r) ==
    \/ r.status \in {400, 404} /\ DOMAIN r.body = {"error"}
    \/ /\ r.status = 401
       /\ DOMAIN r.body = {"error", "code", "reconnectUrl"}
       /\ r.body.code = "TOKEN_EXPIRED"
    \/ r.status = 500 /\ DOMAIN r.body = {"error", "details"}

(* C13: whatever the request and whatever each collaborator does (returns a
   value, returns null, throws), the handler ends with exactly one response,
   a validation report (200 with a ValidationResult) or an error object (400,
   404, 401 TOKEN_EXPIRED, 500 with details); until it has answered a step of
   the handler remains possible, and no second response is ever produced. *)
C13_ExactlyOneStructuredResponse ==
    /\ Len(responses) <= 1
    /\ (pc = "done") = (Len(responses) = 1)
    /\ pc # "done" => ENABLED Next
    /\ \A i \in 1..Len(responses) :
          IsValidationReport(responses[i]) \/ IsErrorObject(responses[i])

C13_Witness ==
    /\ Answered
    /\ \E i \in 1..Len(trace) :
          /\ trace[i].ev = "unobserved"
          /\ "thrown" \in DOMAIN trace[i].outcome
    /\ IsErrorObject(Response)
(* C15: within one response all issue ids are pairwise distinct, on the engine
   path (error-n, warning-n, info-n, large-batch-warning) and on the
   short-circuit path (record-validation-error-n). *)
C15_IssueIdsDistinct ==
    \A r \in 1..Len(responses) :
        "validation" \in DOMAIN responses[r].body =>
            LET issues == responses[r].body.validation.issues
            IN \A i, j \in 1..Len(issues) : i # j => issues[i].id # issues[j].id

C15_Witness ==
    /\ HasVerdict
    /\ Response.body.validation.summary = [errors |-> 2, warnings |-> 3, info |-> 1]
    /\ Cardinality({Response.body.validation.issues[i].id :
                      i \in 1..Len(Response.body.validation.issues)}) = 6
\* the report carries the request's selectedRecordNames, key for key
NamesEchoed ==
    LET sent == request.body.selectedRecordNames
        got == Response.body.validation.selectedRecordNames
    IN /\ DOMAIN got = DOMAIN sent
       /\ \A k \in DOMAIN sent : got[k] = sent[k]

(* C16: no step of the handler changes the request, and a ValidationResult,
   on the short-circuit path and on the engine path alike, echoes back the
   selectedRecordNames map the request carries, unchanged. *)
C16_NamesEchoedUnchanged ==
    [][ /\ request' = request
        /\ (HasVerdict /\ "selectedRecordNames" \in DOMAIN request.body => NamesEchoed)' ]_vars

C16_Witness ==
    /\ HasVerdict
    /\ PreCheckRejected
    /\ "selectedRecordNames" \in DOMAIN request.body
    /\ Response.body.validation.selectedRecordNames = RecordNames
\* a return of fn that satisfies Good(value) precedes position k of the trace
ReturnedBefore(k, fn, Good(_)) ==
    \E i \in Events("return", {fn}) : i < k /\ Good(trace[i].value)

NotNull(value) == value # Null
AnyValue(value) == TRUE
ReportsValid(value) == value.valid

\* nothing before position k threw, returned null or rejected the selection
NoFailureBefore(k) ==
    \A i \in 1..(k - 1) :
        /\ trace[i].ev # "throw"
        /\ trace[i].ev = "return" =>
              /\ trace[i].value # Null
              /\ trace[i].fn = "validateSelectedRecords" => trace[i].value.valid

(* C17: the collaborator calls of one request are ordered: the two
   organisation lookups are issued together and both have returned an
   organisation before the template lookup; the template is resolved before
   the record pre-check; the pre-check has returned valid before the engine is
   invoked; requireAuth is called only after the engine has returned and
   trackEvent only after requireAuth has; and no call is made once an earlier
   step has thrown, returned null or rejected the selection. *)
C17_CallOrder ==
    /\ trace # << >> =>
          /\ Len(trace) >= 2
          /\ trace[1] = Call("organisations.findUnique:source", <<request.body.sourceOrgId>>)
          /\ trace[2] = Call("organisations.findUnique:target", <<request.body.targetOrgId>>)
    /\ \A k \in Calls("templateRegistry.getTemplate") :
          /\ ReturnedBefore(k, "organisations.findUnique:source", NotNull)
          /\ ReturnedBefore(k, "organisations.findUnique:target", NotNull)
    /\ \A k \in Calls("validateSelectedRecords") :
          ReturnedBefore(k, "templateRegistry.getTemplate", NotNull)
    /\ \A k \in Calls("ValidationEngine.validateTemplate") :
          ReturnedBefore(k, "validateSelectedRecords", ReportsValid)
    /\ \A k \in Calls("requireAuth") :
          ReturnedBefore(k, "ValidationEngine.validateTemplate", AnyValue)
    /\ \A k \in Calls("usageTracker.trackEvent") :
          ReturnedBefore(k, "requireAuth", NotNull)
    /\ \A k \in 3..Len(trace) : trace[k].ev = "call" => NoFailureBefore(k)
    /\ \A fn \in LookupFns \cup DownstreamFns \cup TrackingFns :
          Cardinality(Calls(fn)) <= 1

C17_Witness ==
    /\ Answered
    /\ Invoked("usageTracker.trackEvent")
    /\ \E i \in Events("return", {"organisations.findUnique:target"}) :
       \E j \in Events("return", {"organisations.findUnique:source"}) :
       \E k \in Calls("templateRegistry.getTemplate") : i < j /\ j < k
(* C18: the short-circuit ValidationResult holds error issues only:
   summary.warnings and summary.info are 0, hasWarnings is false, no
   "large-batch-warning" issue is present however many records were selected,
   and the i-th issue has the i-th pre-check error message as description and
   the i-th invalid record identifier as recordId. *)
C18_ShortCircuitResult ==
    PreCheckRejected =>
        /\ Answered
        /\ LET v == Response.body.validation
           IN /\ v.summary.warnings = 0
              /\ v.summary.info = 0
              /\ v.hasWarnings = FALSE
              /\ Len(v.issues) = Len(recordValidation.errors)
              /\ \A i \in 1..Len(v.issues) :
                    /\ v.issues[i].severity = "error"
                    /\ v.issues[i].id # "large-batch-warning"
                    /\ v.issues[i].description = recordValidation.errors[i]
                    /\ v.issues[i].recordId = recordValidation.invalidRecords[i]

C18_Witness ==
    /\ PreCheckRejected
    /\ Answered
    /\ Len(request.body.selectedRecords) = 201
    /\ Len(Response.body.validation.issues) = 2
    /\ Response.body.validation.issues[2].recordId = "rec-2"
\* what was thrown at the handler outside the usage-tracking block
ThrownAtHandler ==
    {trace[i].error : i \in Events("throw", LookupFns \cup DownstreamFns)}
    \cup (IF request.parsed THEN {} ELSE {JsonSyntaxError})

\* an Error whose message contains one of the five token substrings
LooksLikeTokenExpiry(error) ==
    /\ error.isError
    /\ \/ Includes(error.message, "invalid_grant")
       \/ Includes(error.message, "expired")
       \/ Includes(error.message, "INVALID_SESSION_ID")
       \/ Includes(error.message, "Authentication token has expired")
       \/ Includes(error.message, "not connected")

(* C19: a failure thrown at the handler outside the usage-tracking block is
   answered with 401 TOKEN_EXPIRED exactly when it is an Error whose message
   contains "invalid_grant", "expired", "INVALID_SESSION_ID", "Authentication
   token has expired" or "not connected"; every other failure is answered
   with 500 and details equal to the Error's message, or "Unknown error" when
   the thrown value is not an Error. *)
C19_CatchClassification ==
    pc = "done" =>
        \A error \in ThrownAtHandler :
            /\ Len(responses) = 1
            /\ IF LooksLikeTokenExpiry(error)
               THEN /\ Response.status = 401
                    /\ Response.body.code = "TOKEN_EXPIRED"
               ELSE /\ Response.status = 500
                    /\ Response.body.details =
                          IF error.isError THEN error.message ELSE "Unknown error"

C19_Witness ==
    /\ Answered
    /\ \E error \in ThrownAtHandler : ~error.isError /\ Includes(error.message, "INVALID_SESSION_ID")
    /\ Response.status = 500
    /\ Response.body.details = "Unknown error"
\* the title has the shape "Invalid <X> Values"
MatchesNamingPattern(title) ==
    /\ Len(title) >= 15
    /\ SubSeq(title, 1, 8) = "Invalid "
    /\ SubSeq(title, Len(title) - 6, Len(title)) = " Values"

\* the <X> of a title of that shape
StrippedTitle(title) == SubSeq(title, 9, Len(title) - 7)

(* C20: on the engine path an error whose title has the shape
   "Invalid <X> Values" gets field = <X>, an error whose title does not have
   that shape gets no field, and warnings and info never get a field. *)
C20_FieldFromTitle ==
    HasVerdict /\ engineValidationResult # Unset =>
        \A i \in 1..Len(Response.body.validation.issues) :
            LET issue == Response.body.validation.issues[i]
            IN IF issue.severity = "error"
               THEN IF MatchesNamingPattern(issue.title)
                    THEN "field" \in DOMAIN issue /\ issue.field = StrippedTitle(issue.title)
                    ELSE "field" \notin DOMAIN issue
               ELSE "field" \notin DOMAIN issue
\* the invocations in flight, each with its own request, trace and responses
Invocations == {Running} \cup (IF suspended = NoInvocation THEN {} ELSE {suspended})

\* what the collaborator fn answered in log, in order: the returns and throws
\* the handler received
Answers(log, fns) ==
    SelectSeq(log, LAMBDA entry : entry.ev \in {"return", "throw"} /\ entry.fn \in fns)

\* the response to req when handled alone, given the answers its collaborators
\* gave in log
ResponseAlone(req, log) ==
    LET lookups == Answers(log, OrgLookupFns)
        found == Answers(log, {"templateRegistry.getTemplate"})
        checked == Answers(log, {"validateSelectedRecords"})
        engine == Answers(log, {"ValidationEngine.validateTemplate"})
        Value(fn) ==
            (CHOOSE i \in 1..Len(lookups) : lookups[i].fn = fn).value
        rejected == {i \in 1..Len(lookups) : lookups[i].ev = "throw"}
    IN IF ~req.parsed THEN CatchResponse(JsonSyntaxError)
       ELSE IF MissingRequired(req.body) THEN MissingParametersResponse
       ELSE IF rejected # {}
            THEN CatchResponse(lookups[CHOOSE i \in rejected : \A j \in rejected : i <= j].error)
       ELSE IF \E i \in 1..Len(lookups) : lookups[i].value = Null
            THEN OrganisationNotFoundResponse
       ELSE IF found[1].value = Null THEN TemplateNotFoundResponse
       ELSE IF checked[1].ev = "throw" THEN CatchResponse(checked[1].error)
       ELSE IF ~checked[1].value.valid
            THEN ShortCircuitResponse(ShortCircuitResult(checked[1].value, req.body))
       ELSE IF engine[1].ev = "throw" THEN CatchResponse(engine[1].error)
       ELSE SuccessResponse(BuildResult(engine[1].value, req.body))

(* C14: with two requests in flight and their steps interleaved in any order
   at the awaits, every invocation that has returned has returned exactly the
   response its own request gets when handled alone against the answers its
   own collaborator calls received; the issue list and the summary in it are
   built from its own engine result, never from the other invocation's. *)
C14_IndependentOfInterleaving ==
    \A inv \in Invocations :
        inv.pc = "done" =>
            inv.responses = << ResponseAlone(inv.request, inv.trace) >>

\* one invocation has returned its report while the other, whose engine gave a
\* different result, is still waiting on usage tracking
C14_Witness ==
    /\ HasVerdict
    /\ engineValidationResult # Unset
    /\ suspended # NoInvocation
    /\ suspended.pc = "awaitTrack"
    /\ suspended.validationResult # validationResult
    /\ suspended.request # request
    /\ Response = ResponseAlone(request, trace)
\* the template the registry handed to the handler, when it handed one
TemplateFound ==
    {trace[i].value : i \in {j \in Events("return", {"templateRegistry.getTemplate"}) :
                                 trace[j].value # Null}}

\* the object type the template's first ETL step declares, "" when it declares none
DeclaredObjectType(t) ==
    IF Len(t.etlSteps) = 0 THEN ""
    ELSE IF "extractConfig" \notin DOMAIN t.etlSteps[1] THEN ""
    ELSE IF "objectApiName" \notin DOMAIN t.etlSteps[1].extractConfig THEN ""
    ELSE t.etlSteps[1].extractConfig.objectApiName

(* C21: once the registry has returned a template the record pre-check is
   called, exactly once and with no response returned before it, with the
   source org id, the whole selectedRecords list and the object type of the
   template's first ETL step, or "tc9_et__Interpretation_Rule__c" when the
   template has no first step or the step declares no object type. *)
C21_PreCheckArguments ==
    \A t \in TemplateFound :
        /\ Cardinality(Calls("validateSelectedRecords")) = 1
        /\ \A i \in Calls("validateSelectedRecords") :
              trace[i].args =
                 << request.body.sourceOrgId,
                    request.body.selectedRecords,
                    IF DeclaredObjectType(t) # "" THEN DeclaredObjectType(t)
                    ELSE "tc9_et__Interpretation_Rule__c" >>
        /\ recordValidation = Unset /\ pc # "done" => responses = << >>

C21_Witness ==
    /\ \E t \in TemplateFound : DeclaredObjectType(t) = "" /\ Len(t.etlSteps) = 0
    /\ \E i \in Calls("validateSelectedRecords") :
          trace[i].args[3] = "tc9_et__Interpretation_Rule__c"
          /\ Len(trace[i].args[2]) = LargeBatchThreshold + 1
    /\ pc = "awaitEngine"
(* C22: requireAuth is called only once the engine has returned and the
   ValidationResult is computed, so never on a request answered with 400, 404
   or the short-circuit report; and when requireAuth throws, both organisation
   lookups, the pre-check and the engine have returned before it, trackEvent is
   never called, and the response is 200 with success true and the computed
   ValidationResult: no request is answered 401 or 403 for lack of a session. *)
C22_NeverRejectedForSession ==
    /\ \A k \in Calls("requireAuth") :
          /\ ReturnedBefore(k, "ValidationEngine.validateTemplate", AnyValue)
          /\ validationResult # Unset
          /\ engineValidationResult # Unset
    /\ Answered /\ (Response.status \in {400, 404} \/ PreCheckRejected) =>
          ~Invoked("requireAuth")
    /\ \A k \in Events("throw", {"requireAuth"}) :
          /\ ReturnedBefore(k, "organisations.findUnique:source", NotNull)
          /\ ReturnedBefore(k, "organisations.findUnique:target", NotNull)
          /\ ReturnedBefore(k, "validateSelectedRecords", ReportsValid)
          /\ ReturnedBefore(k, "ValidationEngine.validateTemplate", AnyValue)
          /\ ~Invoked("usageTracker.trackEvent")
          /\ Answered
          /\ Response = [status |-> 200,
                         body |-> [success |-> TRUE, validation |-> validationResult]]

C22_Witness ==
    /\ Answered
    /\ \E k \in Events("throw", {"requireAuth"}) :
          trace[k].error.isError /\ Includes(trace[k].error.message, "INVALID_SESSION_ID")
    /\ Response.status = 200
    /\ Response.body.success
    /\ Response.body.validation.hasErrors
\* what the engine returned to the handler
EngineAnswer ==
    trace[CHOOSE i \in Events("return", {"ValidationEngine.validateTemplate"}) : TRUE].value

\* issue is the image of the engine entry at position n (from 1) of its sequence
MapsEntry(issue, severity, entry, n) ==
    /\ issue.id = severity \o "-" \o ToString(n - 1)
    /\ issue.severity = severity
    /\ issue.title = entry.checkName
    /\ issue.description = entry.message

(* C23: on the engine path the issue list is the engine's errors, then its
   warnings, then its info entries, each group in the engine's order and each
   id ending in the entry's zero-based position in its own sequence; when more
   than 200 records are selected 'large-batch-warning' is the last issue; the
   list is as long as the three engine sequences together, plus one when more
   than 200 records are selected. *)
C23_IssueOrder ==
    HasVerdict /\ Events("return", {"ValidationEngine.validateTemplate"}) # {} =>
        LET issues == Response.body.validation.issues
            ne == Len(EngineAnswer.errors)
            nw == Len(EngineAnswer.warnings)
            ni == Len(EngineAnswer.info)
            large == Len(request.body.selectedRecords) > 200
        IN /\ Len(issues) = ne + nw + ni + (IF large THEN 1 ELSE 0)
           /\ \A n \in 1..ne : MapsEntry(issues[n], "error", EngineAnswer.errors[n], n)
           /\ \A n \in 1..nw :
                 MapsEntry(issues[ne + n], "warning", EngineAnswer.warnings[n], n)
           /\ \A n \in 1..ni :
                 MapsEntry(issues[ne + nw + n], "info", EngineAnswer.info[n], n)
           /\ large => issues[Len(issues)].id = "large-batch-warning"
           /\ \A n \in 1..Len(issues) :
                 issues[n].id = "large-batch-warning" => large /\ n = Len(issues)

C23_Witness ==
    /\ HasVerdict
    /\ Events("return", {"ValidationEngine.validateTemplate"}) # {}
    /\ Len(EngineAnswer.errors) = 2
    /\ EngineAnswer.errors[1].checkName = "Missing Dependency"
    /\ EngineAnswer.errors[2].checkName = "Invalid Picklist Values"
    /\ Len(EngineAnswer.warnings) = 2
    /\ Len(EngineAnswer.info) = 1
    /\ Len(Response.body.validation.issues) = 6
    /\ Response.body.validation.issues[6].id = "large-batch-warning"
    /\ Response.body.validation.issues[5].id = "info-0"
\* the exit codes of the migrate commands run so far, in order
MigrateExits == [i \in 1..Len(deploy.migrations) |-> deploy.migrations[i].exit]

MigrationsStepFailed ==
    deploy.step = "failed" /\ deploy.failedStep = "migrations"

\* what holds of the migrate attempts at every moment of a job
MigrateAttemptsBounded ==
    /\ Len(MigrateExits) <= 3
    /\ \A i \in 1..Len(MigrateExits) : i < Len(MigrateExits) => MigrateExits[i] # 0
    /\ \A i \in 1..Len(deploy.migrations) :
          deploy.migrations[i].app =
             IF deploy.workflow = "staging" THEN "tc9-migration-tool-staging"
             ELSE "tc9-migration-tool"
    /\ MigrationsStepFailed <=>
          Len(MigrateExits) = 3 /\ \A i \in 1..3 : MigrateExits[i] # 0
    /\ deploy.step = "health-check" =>
          Len(MigrateExits) >= 1 /\ MigrateExits[Len(MigrateExits)] = 0

(* C24: in the production and the staging workflow the migrations step runs the
   migrate command at most 3 times, against the workflow's own app, and never
   again after an attempt that succeeded; the step fails exactly when 3
   attempts have run and all have failed; and once started the step always
   comes to an end, having succeeded or failed. *)
C24_MigrationsRetry ==
    /\ []MigrateAttemptsBounded
    /\ (deploy.step = "migrations") ~> (deploy.step \in {"health-check", "failed"})

C24_Witness ==
    /\ deploy.workflow = "staging"
    /\ deploy.step = "health-check"
    /\ MigrateExits = <<1, 1, 0>>
StatusStepFailed ==
    deploy.step = "failed" /\ deploy.failedStep = "check-status"

StatusStepSucceeded ==
    deploy.step \in {"migrations", "health-check"} \/ MigrationsStepFailed

NoPollReady == \A i \in 1..Len(deploy.polls) : deploy.polls[i] # "ready"

(* C25: in the production and the staging workflow the status step polls at
   most 10 times; it succeeds with the first poll that reports the machines
   ready, the 10th included, whatever the health check request in the loop
   answers; it fails exactly when 10 polls have been made and none reported
   ready; and the migrate command runs only after the step has succeeded. *)
C25_StatusPolling ==
    /\ Len(deploy.polls) <= 10
    /\ \A i \in 1..Len(deploy.polls) :
          deploy.polls[i] = "ready" => i = Len(deploy.polls) /\ StatusStepSucceeded
    /\ StatusStepSucceeded => ~NoPollReady /\ Len(deploy.health) = 1
    /\ StatusStepFailed => Len(deploy.polls) = 10 /\ NoPollReady
    /\ Len(deploy.polls) = 10 /\ NoPollReady => ~StatusStepSucceeded
    /\ deploy.migrations # << >> => ~NoPollReady
====
